---- MODULE Spec2Model ----
(***************************************************************************)
(* A model of scripts/send_coos_digest.py: the fetch -> parse -> format -> *)
(* send pipeline of the COOS community digest and its process exit status. *)
(*                                                                         *)
(* Text is modelled as a sequence of one-character strings, so that        *)
(* startswith, strip, the time-of-day regular expression, f-string         *)
(* formatting and "\n".join are computed as the code computes them.        *)
(* Characters outside ASCII are written by their code point ("U+C624").    *)
(* An optional value (Python None or a value) is the empty sequence or a   *)
(* one-element sequence.                                                   *)
(***************************************************************************)
EXTENDS Integers, Sequences, FiniteSets, TLC

VARIABLES
    argv,           \* sys.argv[1:], a sequence of tokens
    env,            \* os.environ after load_dotenv, name -> optional text
    pc,             \* position of the process in main() and its callees
    use_playwright, \* main's local use_playwright
    html,           \* main's local html: the rows soup.find_all("tr") yields
    posts,          \* main's local posts
    body,           \* main's local body
    fetch_calls,    \* one record per fetch_html call: argument and strategy run
    browsers_open,  \* headless browser instances launched and not yet released
    smtp_open,      \* the smtplib.SMTP session holds an open connection
    smtp_log,       \* the SMTP commands that succeeded, in order
    send_calls,     \* number of send_email invocations
    parsed,         \* the result of every parse_posts call, in order
    exc,            \* the type of the exception propagating, or "None"
    raised_at,      \* the position that raised it, or "None"
    log_lines,      \* tags of the lines written by log()
    exit_status     \* the process exit status, or -1 while running

vars == <<argv, env, pc, use_playwright, html, posts, body, fetch_calls,
          browsers_open, smtp_open, smtp_log, send_calls, parsed, exc, raised_at,
          log_lines, exit_status>>

\* ------------------------------------------------------------------ bounds

MaxRows == 2
MaxPosts == 3

\* -------------------------------------------------------------------- text

None == <<>>
Some(x) == <<x>>

Digits == {"0", "1", "2", "3", "4", "5", "6", "7", "8", "9"}
Whitespace == {" ", "\n", "\t"}

UpperLetters == <<"A", "B", "C", "D", "E", "F", "G", "H", "I", "J", "K", "L", "M",
                  "N", "O", "P", "Q", "R", "S", "T", "U", "V", "W", "X", "Y", "Z">>
LowerLetters == <<"a", "b", "c", "d", "e", "f", "g", "h", "i", "j", "k", "l", "m",
                  "n", "o", "p", "q", "r", "s", "t", "u", "v", "w", "x", "y", "z">>

\* str.lower()
Lower(s) ==
    [i \in 1..Len(s) |->
        IF \E k \in 1..26 : UpperLetters[k] = s[i]
        THEN LowerLetters[CHOOSE k \in 1..26 : UpperLetters[k] = s[i]]
        ELSE s[i]]

\* str.startswith(p)
StartsWith(s, p) == Len(s) >= Len(p) /\ SubSeq(s, 1, Len(p)) = p

RECURSIVE LStrip(_)
LStrip(s) == IF s # <<>> /\ Head(s) \in Whitespace THEN LStrip(Tail(s)) ELSE s

RECURSIVE RStrip(_)
RStrip(s) ==
    IF s # <<>> /\ s[Len(s)] \in Whitespace THEN RStrip(SubSeq(s, 1, Len(s) - 1)) ELSE s

\* str.strip()
Strip(s) == RStrip(LStrip(s))

\* The text d{1,2}:d{2} and nothing else.
IsClock(s) ==
    /\ Len(s) \in {4, 5}
    /\ s[Len(s) - 2] = ":"
    /\ \A i \in 1..Len(s) : i # Len(s) - 2 => s[i] \in Digits

TimePatternNoEndAnchor(s) ==
    \E n \in {4, 5} : Len(s) >= n /\ IsClock(SubSeq(s, 1, n))

\* time_pattern.match(text) for ^\d{1,2}:\d{2}$ : in Python, $ also matches just
\* before a newline that ends the text.
TimePatternMatch(s) ==
    \/ IsClock(s)
    \/ /\ s # <<>>
       /\ s[Len(s)] = "\n"
       /\ IsClock(SubSeq(s, 1, Len(s) - 1))

\* ------------------------------------------------------------------ markup
\* The page is modelled at the level parse_posts reads it: the sequence of rows
\* soup.find_all("tr") returns, each row the sequence of cells
\* tr.find_all(["td", "th"]) returns, each cell its own text node followed by
\* its first anchor (c.find("a")), if any: [own, a], a an optional
\* [text, href], href an optional text.

\* a.get_text(strip=True)
AnchorText(a) == Strip(a.text)

\* c.get_text(strip=True): every text node stripped, empty ones dropped, joined
\* by "".
CellText(c) == Strip(c.own) \o (IF c.a = None THEN <<>> ELSE AnchorText(c.a[1]))

Origin == <<"h", "t", "t", "p", "s", ":", "/", "/", "c", "o", "o", "s", ".", "k", "r">>
HttpPrefix == <<"h", "t", "t", "p">>

\* Lines 123-129: href = a.get("href") or ""; the three-way branch on it.
ResolveLink(a) ==
    LET href == IF a.href = None THEN <<>> ELSE a.href[1]
    IN  IF StartsWith(href, <<"/">>) THEN Some(Origin \o href)
        ELSE IF StartsWith(href, HttpPrefix) THEN Some(href)
        ELSE None

\* Lines 108-113: the text of the first cell that matches the time pattern.
DateCell(cells) ==
    LET hits == {i \in 1..Len(cells) : TimePatternMatch(CellText(cells[i]))}
    IN  IF hits = {} THEN None
        ELSE Some(CellText(cells[CHOOSE i \in hits : \A j \in hits : i <= j]))

\* Lines 119-121: the first cell whose anchor has non-empty text.
TitledCells(cells) ==
    {i \in 1..Len(cells) : cells[i].a # None /\ AnchorText(cells[i].a[1]) # <<>>}

\* Lines 104-136, the body of the loop for one row: the post it appends, if any.
RowPost(cells) ==
    IF Len(cells) < 3 THEN None
    ELSE IF DateCell(cells) = None \/ DateCell(cells) = Some(<<>>) THEN None
    ELSE
        LET hits  == TitledCells(cells)
            first == CHOOSE i \in hits : \A j \in hits : i <= j
            title == IF hits # {} THEN AnchorText(cells[first].a[1])
                     ELSE CellText(cells[1])
            link  == IF hits # {} THEN ResolveLink(cells[first].a[1]) ELSE None
        IN  IF title = <<>> THEN None
            ELSE Some([title |-> title, link |-> link, date |-> DateCell(cells)[1]])

RECURSIVE CollectPosts(_)
CollectPosts(rows) ==
    IF rows = <<>> THEN <<>>
    ELSE RowPost(Head(rows)) \o CollectPosts(Tail(rows))

IsToday(p) == TimePatternMatch(p.date)

\* parse_posts(html)
parse_posts(rows) == SelectSeq(CollectPosts(rows), IsToday)

\* ------------------------------------------------------------- formatting

NoPostsText == <<"U+C624", "U+B298", " ", "U+C62C", "U+B77C", "U+C628", " ", "U+AC8C",
                 "U+C2DC", "U+AE00", "U+C774", " ", "U+C5C6", "U+C2B5", "U+B2C8",
                 "U+B2E4", ".">>
HeaderText == <<"U+C624", "U+B298", " ", "U+C62C", "U+B77C", "U+C628", " ", "U+AC8C",
                "U+C2DC", "U+AE00", ":">>

DigitChars == <<"0", "1", "2", "3", "4", "5", "6", "7", "8", "9">>

\* str(n) for n >= 0, as an f-string renders an int
RECURSIVE DecStr(_)
DecStr(n) ==
    IF n < 10 THEN <<DigitChars[n + 1]>>
    ELSE DecStr(n \div 10) \o <<DigitChars[(n % 10) + 1]>>

\* sep.join(lines)
RECURSIVE Join(_, _)
Join(lines, sep) ==
    IF lines = <<>> THEN <<>>
    ELSE IF Len(lines) = 1 THEN lines[1]
    ELSE lines[1] \o sep \o Join(Tail(lines), sep)

\* Lines 148-151: the line appended for the idx-th post; `if p["link"]` is false
\* for None and for "".
PostLine(idx, p) ==
    IF p.link # None /\ p.link[1] # <<>>
    THEN DecStr(idx) \o <<".", " ">> \o p.title \o <<" ", "-", " ">> \o p.link[1]
    ELSE DecStr(idx) \o <<".", " ">> \o p.title

\* build_email_body(posts)
build_email_body(ps) ==
    IF ps = <<>> THEN NoPostsText
    ELSE Join(<<HeaderText>> \o [i \in 1..Len(ps) |-> PostLine(i, ps[i])], <<"\n">>)

\* --------------------------------------------------------- bounded inputs

Txt_1230 == <<"1", "2", ":", "3", "0">>
Txt_905 == <<"9", ":", "0", "5">>
Txt_905_ws == <<" ", "9", ":", "0", "5", "\n">>
Txt_date == <<"2", "0", "2", "4", "-", "0", "1", "-", "0", "1">>
Txt_12345 == <<"1", "2", "3", ":", "4", "5">>
Txt_12300 == <<"1", "2", ":", "3", "0", "0">>
Txt_15 == <<"1", ":", "5">>
Txt_Hello == <<"H", "e", "l", "l", "o">>
Txt_OldPost == <<"O", "l", "d", " ", "p", "o", "s", "t">>
Txt_TwoLines == <<"A", "\n", "B">>
Txt_3 == <<"3">>

Href_site == <<"/", "p", "/", "4", "2">>
Href_https == <<"h", "t", "t", "p", "s", ":", "/", "/", "c", "o", "o", "s", ".", "k", "r",
                "/", "p", "/", "4", "2">>
Href_http == <<"h", "t", "t", "p", ":", "/", "/", "e", "x", ".", "k", "r", "/", "a">>
Href_fragment == <<"#", "t", "o", "p">>
Href_relative == <<"p", "/", "4", "2">>
Href_mailto == <<"m", "a", "i", "l", "t", "o", ":", "a", "@", "b">>
Href_ftp == <<"f", "t", "p", ":", "/", "/", "x", "/", "a">>
Href_httpdocs == <<"h", "t", "t", "p", "d", "o", "c", "s", "/", "a">>

TextCell(t) == [own |-> t, a |-> None]
LinkCell(t, h) == [own |-> <<>>, a |-> Some([text |-> t, href |-> h])]

TimeCells == {TextCell(t) : t \in {Txt_1230, Txt_905, Txt_905_ws, Txt_date, Txt_12345,
                                   Txt_12300, Txt_15}}

Hrefs == {None, Some(<<>>), Some(Href_site), Some(Href_https), Some(Href_http),
          Some(Href_fragment), Some(Href_relative), Some(Href_mailto), Some(Href_ftp),
          Some(Href_httpdocs)}

TitleCells == {LinkCell(Txt_Hello, h) : h \in Hrefs}
              \cup {LinkCell(Txt_TwoLines, None), LinkCell(<<" ">>, Some(Href_site)),
                    TextCell(Txt_OldPost)}

CountCell == TextCell(Txt_3)

ParseRows ==
    {<<t, LinkCell(Txt_Hello, Some(Href_site)), CountCell>> : t \in TimeCells}
    \cup {<<t, TextCell(Txt_OldPost), CountCell>> : t \in TimeCells}
    \cup {<<TextCell(Txt_1230), c, CountCell>> : c \in TitleCells}
    \cup {<<TextCell(Txt_1230), LinkCell(Txt_Hello, Some(Href_site))>>,
          <<TextCell(<<"N", "o">>), TextCell(<<"T">>), TextCell(<<"D">>)>>,
          <<CountCell, LinkCell(Txt_Hello, Some(Href_https)), TextCell(Txt_905)>>,
          <<TextCell(<<>>), TextCell(Txt_1230), CountCell>>,
          <<TextCell(Txt_1230), LinkCell(<<" ">>, Some(Href_site)),
            LinkCell(Txt_Hello, Some(Href_http))>>,
          <<LinkCell(Txt_905, Some(Href_site)), TextCell(Txt_OldPost), CountCell>>}

SeqsUpTo(S, n) == UNION {[1..k -> S] : k \in 0..n}

ParsePages == SeqsUpTo(ParseRows, MaxRows)

BodyPosts ==
    {[title |-> t, link |-> l, date |-> Txt_1230] :
        t \in {Txt_Hello, Txt_OldPost, Txt_TwoLines},
        l \in {None, Some(Origin \o Href_site), Some(Href_http)}}

BodyInputs == SeqsUpTo(BodyPosts, MaxPosts)

\* ------------------------------------------------------------ the process

Tok_use_playwright == <<"-", "-", "u", "s", "e", "-", "p", "l", "a", "y", "w", "r", "i",
                        "g", "h", "t">>
Tok_help == <<"-", "-", "h", "e", "l", "p">>
Tok_h == <<"-", "h">>
Tok_use == <<"-", "-", "u", "s", "e">>
Tok_bogus == <<"-", "-", "b", "o", "g", "u", "s">>
Txt_true == <<"t", "r", "u", "e">>
Txt_TRUE == <<"T", "R", "U", "E">>
Txt_false == <<"f", "a", "l", "s", "e">>
Txt_user == <<"u", "@", "x">>
Txt_abc == <<"a", "b", "c">>
Txt_587 == <<"5", "8", "7">>

ArgvSet == {<<>>, <<Tok_use_playwright>>, <<Tok_use>>, <<Tok_bogus>>, <<Tok_h>>}

EnvSet ==
    [USE_PLAYWRIGHT : {None, Some(Txt_TRUE), Some(<<"1">>)},
     USE_SELENIUM   : {None, Some(Txt_true)},
     SMTP_PORT      : {None, Some(Txt_abc)},
     SMTP_USER      : {None, Some(<<>>), Some(Txt_user)},
     SMTP_PASS      : {None, Some(<<>>), Some(Txt_user)},
     MAIL_TO        : {None, Some(<<>>), Some(Txt_user)}]

DefaultEnv == [USE_PLAYWRIGHT |-> None, USE_SELENIUM |-> None, SMTP_PORT |-> None,
               SMTP_USER |-> None, SMTP_PASS |-> None, MAIL_TO |-> None]

\* The pages a fetch can return.
FetchPages ==
    {<<>>,
     << <<TextCell(Txt_date), TextCell(Txt_OldPost), CountCell>> >>,
     << <<TextCell(Txt_1230), LinkCell(Txt_Hello, Some(Href_site)), CountCell>> >>}

\* os.environ.get(name, default)
EnvGet(e, name, default) == IF e[name] = None THEN default ELSE e[name][1]

\* argparse: a long option may be abbreviated to any prefix that names one option.
IsLongOpt(tok, opt) == Len(tok) > 2 /\ StartsWith(opt, tok)
IsForceFlag(tok) == IsLongOpt(tok, Tok_use_playwright)
IsHelpFlag(tok) == tok = Tok_h \/ IsLongOpt(tok, Tok_help)

\* parser.parse_args(): "help" (usage printed, exit 0), "error" (an unrecognized
\* argument, reported once every token was read: exit 2), or "ok".
ArgsOutcome(args) ==
    LET bad == {i \in 1..Len(args) : ~IsForceFlag(args[i]) /\ ~IsHelpFlag(args[i])}
        hlp == {i \in 1..Len(args) : IsHelpFlag(args[i])}
    IN  IF hlp # {} THEN "help"
        ELSE IF bad # {} THEN "error"
        ELSE "ok"

ArgsFlag(args) == \E i \in 1..Len(args) : IsForceFlag(args[i])

\* Lines 189-192
SelectMode(args, e) ==
    ArgsFlag(args) \/ Lower(EnvGet(e, "USE_PLAYWRIGHT", Txt_false)) = Txt_true

StrategySeleniumFirst(force, e) ==
    IF Lower(EnvGet(e, "USE_SELENIUM", Txt_false)) = Txt_true THEN "selenium"
    ELSE IF force THEN "playwright"
    ELSE "requests"

\* Lines 85-93: the strategy fetch_html(force) runs.
Strategy(force, e) ==
    IF force THEN "playwright"
    ELSE IF Lower(EnvGet(e, "USE_SELENIUM", Txt_false)) = Txt_true THEN "selenium"
    ELSE "requests"

NeedsRetryWhenEmpty(ps, forced) == ps = <<>>

\* Line 198
NeedsRetry(ps, forced) == ps = <<>> /\ ~forced

\* int(text)
IsIntText(t) == Strip(t) # <<>> /\ \A i \in 1..Len(Strip(t)) : Strip(t)[i] \in Digits

ConfigMissingNoRecipient(e) ==
    \/ e.SMTP_USER = None \/ e.SMTP_USER[1] = <<>>
    \/ e.SMTP_PASS = None \/ e.SMTP_PASS[1] = <<>>

\* Line 163
ConfigMissing(e) ==
    \/ e.SMTP_USER = None \/ e.SMTP_USER[1] = <<>>
    \/ e.SMTP_PASS = None \/ e.SMTP_PASS[1] = <<>>
    \/ e.MAIL_TO = None \/ e.MAIL_TO[1] = <<>>

Last(s) == s[Len(s)]

\* The argument of the fetch_html call about to be made: line 194, then line 200.
FetchArg == IF fetch_calls = <<>> THEN use_playwright ELSE TRUE

\* Where fetch_html returns to: line 195 after the first call, line 201 after the second.
AfterFetch == IF Len(fetch_calls) = 1 THEN "parse1" ELSE "parse2"

log(tag) == log_lines' = Append(log_lines, tag)

\* An exception raised at the current position, next handled at `to`.
Raise(type, to) == exc' = type /\ raised_at' = pc /\ pc' = to

NoRaise == UNCHANGED <<exc, raised_at>>

Init ==
    /\ argv \in ArgvSet
    /\ env \in EnvSet
    /\ pc = "parse_args"
    /\ use_playwright = FALSE
    /\ html = <<>>
    /\ posts = <<>>
    /\ body = <<>>
    /\ fetch_calls = <<>>
    /\ browsers_open = 0
    /\ smtp_open = FALSE
    /\ smtp_log = <<>>
    /\ send_calls = 0
    /\ parsed = <<>>
    /\ exc = "None"
    /\ raised_at = "None"
    /\ log_lines = <<>>
    /\ exit_status = -1

\* Lines 181-185. argparse leaves through SystemExit, which `except Exception`
\* does not catch: status 2 for a rejected command line, 0 after --help.
ParseArgs ==
    /\ pc = "parse_args"
    /\ \/ /\ ArgsOutcome(argv) = "ok"
          /\ pc' = "select_mode"
          /\ UNCHANGED exit_status
       \/ /\ ArgsOutcome(argv) = "error"
          /\ pc' = "exited"
          /\ exit_status' = 2
       \/ /\ ArgsOutcome(argv) = "help"
          /\ pc' = "exited"
          /\ exit_status' = 0
    /\ UNCHANGED <<argv, env, use_playwright, html, posts, body, fetch_calls,
                   browsers_open, smtp_open, smtp_log, send_calls, parsed, exc,
                   raised_at, log_lines>>

\* Lines 187-192
SelectModeStep ==
    /\ pc = "select_mode"
    /\ use_playwright' = SelectMode(argv, env)
    /\ pc' = "fetch_html"
    /\ UNCHANGED <<argv, env, html, posts, body, fetch_calls, browsers_open, smtp_open,
                   smtp_log, send_calls, parsed, exc, raised_at, log_lines, exit_status>>

\* Lines 85-93: fetch_html dispatches to one strategy.
fetch_html ==
    /\ pc = "fetch_html"
    /\ LET st == Strategy(FetchArg, env)
       IN  /\ fetch_calls' = Append(fetch_calls, [forced |-> FetchArg, strategy |-> st])
           /\ pc' = CASE st = "playwright" -> "pw_import"
                      [] st = "selenium" -> "sel_check"
                      [] OTHER -> "requests_get"
    /\ UNCHANGED <<argv, env, use_playwright, html, posts, body, browsers_open, smtp_open,
                   smtp_log, send_calls, parsed, exc, raised_at, log_lines, exit_status>>

\* Lines 41-45: requests.get and raise_for_status succeed, or raise.
fetch_with_requests ==
    /\ pc = "requests_get"
    /\ log("fetch_requests")
    /\ \/ /\ \E page \in FetchPages : html' = page
          /\ pc' = AfterFetch
          /\ NoRaise
       \/ /\ Raise("RequestException", "handler")
          /\ UNCHANGED html
    /\ UNCHANGED <<argv, env, use_playwright, posts, body, fetch_calls, browsers_open,
                   smtp_open, smtp_log, send_calls, parsed, exit_status>>

PwImportErrorSwallowed ==
    /\ pc = "pw_import"
    /\ log("fetch_playwright")
    /\ \/ pc' = "pw_start" /\ NoRaise
       \/ Raise("RuntimeError", IF Len(fetch_calls) = 2 THEN "build" ELSE "handler")
    /\ UNCHANGED <<argv, env, use_playwright, html, posts, body, fetch_calls,
                   browsers_open, smtp_open, smtp_log, send_calls, parsed, exit_status>>

\* Lines 48-54: the import of playwright succeeds, or RuntimeError is raised.
PwImport ==
    /\ pc = "pw_import"
    /\ log("fetch_playwright")
    /\ \/ pc' = "pw_start" /\ NoRaise
       \/ Raise("RuntimeError", "handler")
    /\ UNCHANGED <<argv, env, use_playwright, html, posts, body, fetch_calls,
                   browsers_open, smtp_open, smtp_log, send_calls, parsed, exit_status>>

\* Line 56: entering the sync_playwright() context starts the driver, or raises.
PwStart ==
    /\ pc = "pw_start"
    /\ \/ pc' = "pw_launch" /\ NoRaise
       \/ Raise("PlaywrightError", "handler")
    /\ UNCHANGED <<argv, env, use_playwright, html, posts, body, fetch_calls,
                   browsers_open, smtp_open, smtp_log, send_calls, parsed, log_lines,
                   exit_status>>

\* Line 57: p.chromium.launch(headless=True)
PwLaunch ==
    /\ pc = "pw_launch"
    /\ \/ /\ browsers_open' = browsers_open + 1
          /\ pc' = "pw_goto"
          /\ NoRaise
       \/ /\ Raise("PlaywrightError", "pw_exit")
          /\ UNCHANGED browsers_open
    /\ UNCHANGED <<argv, env, use_playwright, html, posts, body, fetch_calls, smtp_open,
                   smtp_log, send_calls, parsed, log_lines, exit_status>>

\* Lines 58-59: new_page and goto, which raises on a navigation error or after
\* its 30 s timeout.
PwGoto ==
    /\ pc = "pw_goto"
    /\ \/ pc' = "pw_content" /\ NoRaise
       \/ Raise("PlaywrightError", "pw_exit")
    /\ UNCHANGED <<argv, env, use_playwright, html, posts, body, fetch_calls,
                   browsers_open, smtp_open, smtp_log, send_calls, parsed, log_lines,
                   exit_status>>

\* Lines 60-61: page.content(), then browser.close().
PwContent ==
    /\ pc = "pw_content"
    /\ \/ /\ \E page \in FetchPages : html' = page
          /\ browsers_open' = browsers_open - 1
          /\ pc' = "pw_exit"
          /\ NoRaise
       \/ /\ Raise("PlaywrightError", "pw_exit")
          /\ UNCHANGED <<html, browsers_open>>
    /\ UNCHANGED <<argv, env, use_playwright, posts, body, fetch_calls, smtp_open,
                   smtp_log, send_calls, parsed, log_lines, exit_status>>

\* Lines 56/62: leaving the sync_playwright() context stops the driver, which
\* ends every browser it launched; then html is returned or the exception goes on.
PwExit ==
    /\ pc = "pw_exit"
    /\ browsers_open' = 0
    /\ pc' = IF exc = "None" THEN AfterFetch ELSE "handler"
    /\ UNCHANGED <<argv, env, use_playwright, html, posts, body, fetch_calls, smtp_open,
                   smtp_log, send_calls, parsed, exc, raised_at, log_lines, exit_status>>

\* Lines 65-69: RuntimeError when selenium or webdriver_manager is not installed.
SelCheck ==
    /\ pc = "sel_check"
    /\ \/ pc' = "sel_install" /\ NoRaise /\ log("fetch_selenium")
       \/ Raise("RuntimeError", "handler") /\ UNCHANGED log_lines
    /\ UNCHANGED <<argv, env, use_playwright, html, posts, body, fetch_calls,
                   browsers_open, smtp_open, smtp_log, send_calls, parsed, exit_status>>

\* Lines 70-76: ChromeDriverManager().install()
SelInstall ==
    /\ pc = "sel_install"
    /\ \/ pc' = "sel_launch" /\ NoRaise
       \/ Raise("WebDriverManagerError", "handler")
    /\ UNCHANGED <<argv, env, use_playwright, html, posts, body, fetch_calls,
                   browsers_open, smtp_open, smtp_log, send_calls, parsed, log_lines,
                   exit_status>>

\* Line 78: webdriver.Chrome(...) starts the browser, or raises.
SelLaunch ==
    /\ pc = "sel_launch"
    /\ \/ /\ browsers_open' = browsers_open + 1
          /\ pc' = "sel_get"
          /\ NoRaise
       \/ /\ Raise("WebDriverException", "handler")
          /\ UNCHANGED browsers_open
    /\ UNCHANGED <<argv, env, use_playwright, html, posts, body, fetch_calls, smtp_open,
                   smtp_log, send_calls, parsed, log_lines, exit_status>>

\* Line 79: driver.get; no try/finally surrounds it.
SelGet ==
    /\ pc = "sel_get"
    /\ \/ pc' = "sel_source" /\ NoRaise
       \/ Raise("WebDriverException", "handler")
    /\ UNCHANGED <<argv, env, use_playwright, html, posts, body, fetch_calls,
                   browsers_open, smtp_open, smtp_log, send_calls, parsed, log_lines,
                   exit_status>>

\* Lines 80-83: implicitly_wait, page_source, then driver.quit().
SelSource ==
    /\ pc = "sel_source"
    /\ \/ /\ \E page \in FetchPages : html' = page
          /\ browsers_open' = browsers_open - 1
          /\ pc' = AfterFetch
          /\ NoRaise
       \/ /\ Raise("WebDriverException", "handler")
          /\ UNCHANGED <<html, browsers_open>>
    /\ UNCHANGED <<argv, env, use_playwright, posts, body, fetch_calls, smtp_open,
                   smtp_log, send_calls, parsed, log_lines, exit_status>>

\* Lines 195-199: the first parse and the decision to fetch again.
Parse1 ==
    /\ pc = "parse1"
    /\ \/ /\ posts' = parse_posts(html)
          /\ parsed' = Append(parsed, posts')
          /\ IF NeedsRetry(posts', use_playwright)
             THEN pc' = "fetch_html" /\ log("retry")
             ELSE pc' = "build" /\ UNCHANGED log_lines
          /\ NoRaise
       \/ /\ Raise("ParserRejectedMarkup", "handler")
          /\ UNCHANGED <<posts, parsed, log_lines>>
    /\ UNCHANGED <<argv, env, use_playwright, html, body, fetch_calls, browsers_open,
                   smtp_open, smtp_log, send_calls, exit_status>>

\* Line 201: the parse of the second page; nothing is fetched after it.
Parse2 ==
    /\ pc = "parse2"
    /\ \/ /\ posts' = parse_posts(html)
          /\ parsed' = Append(parsed, posts')
          /\ pc' = "build"
          /\ NoRaise
       \/ /\ Raise("ParserRejectedMarkup", "handler")
          /\ UNCHANGED <<posts, parsed>>
    /\ UNCHANGED <<argv, env, use_playwright, html, body, fetch_calls, browsers_open,
                   smtp_open, smtp_log, send_calls, log_lines, exit_status>>

\* Lines 203-204
Build ==
    /\ pc = "build"
    /\ log("found")
    /\ body' = build_email_body(posts)
    /\ pc' = "send_email"
    /\ UNCHANGED <<argv, env, use_playwright, html, posts, fetch_calls, browsers_open,
                   smtp_open, smtp_log, send_calls, parsed, exc, raised_at, exit_status>>

\* Lines 155-172: send_email reads its configuration; int() of the port and the
\* check of line 163 come before the session is created.
send_email ==
    /\ pc = "send_email"
    /\ send_calls' = send_calls + 1
    /\ IF ~IsIntText(EnvGet(env, "SMTP_PORT", Txt_587))
       THEN Raise("ValueError", "handler") /\ UNCHANGED log_lines
       ELSE IF ConfigMissing(env)
       THEN Raise("RuntimeError", "handler") /\ UNCHANGED log_lines
       ELSE pc' = "smtp_connect" /\ NoRaise /\ log("sending")
    /\ UNCHANGED <<argv, env, use_playwright, html, posts, body, fetch_calls,
                   browsers_open, smtp_open, smtp_log, parsed, exit_status>>

\* Line 173: smtplib.SMTP(host, port, timeout=30) connects; when it raises, no
\* session exists and the with block is never entered.
SmtpConnect ==
    /\ pc = "smtp_connect"
    /\ \/ /\ smtp_open' = TRUE
          /\ smtp_log' = Append(smtp_log, "connect")
          /\ pc' = "smtp_ehlo"
          /\ NoRaise
       \/ /\ Raise("OSError", "handler")
          /\ UNCHANGED <<smtp_open, smtp_log>>
    /\ UNCHANGED <<argv, env, use_playwright, html, posts, body, fetch_calls,
                   browsers_open, send_calls, parsed, log_lines, exit_status>>

\* Line 174
SmtpEhlo ==
    /\ pc = "smtp_ehlo"
    /\ \/ /\ smtp_log' = Append(smtp_log, "ehlo")
          /\ pc' = "smtp_starttls"
          /\ NoRaise
       \/ /\ Raise("SMTPException", "smtp_exit")
          /\ UNCHANGED smtp_log
    /\ UNCHANGED <<argv, env, use_playwright, html, posts, body, fetch_calls,
                   browsers_open, smtp_open, send_calls, parsed, log_lines, exit_status>>

\* Line 175
SmtpStarttls ==
    /\ pc = "smtp_starttls"
    /\ \/ /\ smtp_log' = Append(smtp_log, "starttls")
          /\ pc' = "smtp_login"
          /\ NoRaise
       \/ /\ Raise("SMTPException", "smtp_exit")
          /\ UNCHANGED smtp_log
    /\ UNCHANGED <<argv, env, use_playwright, html, posts, body, fetch_calls,
                   browsers_open, smtp_open, send_calls, parsed, log_lines, exit_status>>

SmtpLoginFailureIgnored ==
    /\ pc = "smtp_login"
    /\ \/ /\ smtp_log' = Append(smtp_log, "login")
          /\ pc' = "smtp_send"
          /\ NoRaise
       \/ /\ pc' = "smtp_send"
          /\ NoRaise
          /\ UNCHANGED smtp_log
    /\ UNCHANGED <<argv, env, use_playwright, html, posts, body, fetch_calls,
                   browsers_open, smtp_open, send_calls, parsed, log_lines, exit_status>>

\* Line 176
SmtpLogin ==
    /\ pc = "smtp_login"
    /\ \/ /\ smtp_log' = Append(smtp_log, "login")
          /\ pc' = "smtp_send"
          /\ NoRaise
       \/ /\ Raise("SMTPException", "smtp_exit")
          /\ UNCHANGED smtp_log
    /\ UNCHANGED <<argv, env, use_playwright, html, posts, body, fetch_calls,
                   browsers_open, smtp_open, send_calls, parsed, log_lines, exit_status>>

\* Line 177
SmtpSend ==
    /\ pc = "smtp_send"
    /\ \/ /\ smtp_log' = Append(smtp_log, "send_message")
          /\ pc' = "smtp_exit"
          /\ NoRaise
       \/ /\ Raise("SMTPException", "smtp_exit")
          /\ UNCHANGED smtp_log
    /\ UNCHANGED <<argv, env, use_playwright, html, posts, body, fetch_calls,
                   browsers_open, smtp_open, send_calls, parsed, log_lines, exit_status>>

\* Line 173, leaving the with block: smtplib.SMTP.__exit__ sends QUIT, raises
\* SMTPResponseException when the reply is not 221, passes over a server that
\* has disconnected, and closes the connection in its finally clause.
SmtpExit ==
    /\ pc = "smtp_exit"
    /\ smtp_open' = FALSE
    /\ \/ /\ smtp_log' = Append(smtp_log, "quit")
          /\ pc' = IF exc = "None" THEN "log_done" ELSE "handler"
          /\ NoRaise
       \/ /\ pc' = IF exc = "None" THEN "log_done" ELSE "handler"
          /\ NoRaise
          /\ UNCHANGED smtp_log
       \/ /\ Raise("SMTPResponseException", "handler")
          /\ UNCHANGED smtp_log
    /\ UNCHANGED <<argv, env, use_playwright, html, posts, body, fetch_calls,
                   browsers_open, send_calls, parsed, log_lines, exit_status>>

\* Line 206, and the interpreter leaving with status 0.
LogDone ==
    /\ pc = "log_done"
    /\ log("done")
    /\ pc' = "exited"
    /\ exit_status' = 0
    /\ UNCHANGED <<argv, env, use_playwright, html, posts, body, fetch_calls,
                   browsers_open, smtp_open, smtp_log, send_calls, parsed, exc,
                   raised_at>>

HandlerExitsZero ==
    /\ pc = "handler"
    /\ log("error")
    /\ pc' = "exited"
    /\ exit_status' = 0
    /\ UNCHANGED <<argv, env, use_playwright, html, posts, body, fetch_calls,
                   browsers_open, smtp_open, smtp_log, send_calls, parsed, exc,
                   raised_at>>

\* Lines 212-214
Handler ==
    /\ pc = "handler"
    /\ log("error")
    /\ pc' = "exited"
    /\ exit_status' = 1
    /\ UNCHANGED <<argv, env, use_playwright, html, posts, body, fetch_calls,
                   browsers_open, smtp_open, smtp_log, send_calls, parsed, exc,
                   raised_at>>

Next ==
    \/ ParseArgs
    \/ SelectModeStep
    \/ fetch_html
    \/ fetch_with_requests
    \/ PwImport
    \/ PwStart
    \/ PwLaunch
    \/ PwGoto
    \/ PwContent
    \/ PwExit
    \/ SelCheck
    \/ SelInstall
    \/ SelLaunch
    \/ SelGet
    \/ SelSource
    \/ Parse1
    \/ Parse2
    \/ Build
    \/ send_email
    \/ SmtpConnect
    \/ SmtpEhlo
    \/ SmtpStarttls
    \/ SmtpLogin
    \/ SmtpSend
    \/ SmtpExit
    \/ LogDone
    \/ Handler

Spec == Init /\ [][Next]_vars

\* ---------------------------------------------- the pure functions alone

Idle ==
    /\ argv = <<>>
    /\ env = DefaultEnv
    /\ use_playwright = FALSE
    /\ fetch_calls = <<>>
    /\ browsers_open = 0
    /\ smtp_open = FALSE
    /\ smtp_log = <<>>
    /\ send_calls = 0
    /\ parsed = <<>>
    /\ exc = "None"
    /\ raised_at = "None"
    /\ log_lines = <<>>
    /\ exit_status = -1

InitParse ==
    /\ Idle
    /\ pc = "parse_posts"
    /\ html \in ParsePages
    /\ posts = <<>>
    /\ body = <<>>

\* parse_posts applied to a page.
ParseOnly ==
    /\ pc = "parse_posts"
    /\ posts' = parse_posts(html)
    /\ pc' = "parsed"
    /\ UNCHANGED <<argv, env, use_playwright, html, body, fetch_calls, browsers_open,
                   smtp_open, smtp_log, send_calls, parsed, exc, raised_at, log_lines,
                   exit_status>>

NextParse == ParseOnly

SpecParse == InitParse /\ [][NextParse]_vars

InitBody ==
    /\ Idle
    /\ pc = "build_email_body"
    /\ html = <<>>
    /\ posts \in BodyInputs
    /\ body = <<>>

\* build_email_body applied to a sequence of posts.
BuildOnly ==
    /\ pc = "build_email_body"
    /\ body' = build_email_body(posts)
    /\ pc' = "built"
    /\ UNCHANGED <<argv, env, use_playwright, html, posts, fetch_calls, browsers_open,
                   smtp_open, smtp_log, send_calls, parsed, exc, raised_at, log_lines,
                   exit_status>>

NextBody == BuildOnly

SpecBody == InitBody /\ [][NextBody]_vars

\* ----------------------------------------------------------------- claims

FetchPositions == {"fetch_html", "requests_get", "pw_import", "pw_start", "pw_launch",
                   "pw_goto", "pw_content", "pw_exit", "sel_check", "sel_install",
                   "sel_launch", "sel_get", "sel_source"}
ParsePositions == {"parse1", "parse2"}
SmtpPositions == {"smtp_connect", "smtp_ehlo", "smtp_starttls", "smtp_login", "smtp_send",
                  "smtp_exit"}
AfterParsePositions == {"build", "send_email", "log_done"} \cup SmtpPositions

\* The strictly increasing maps from 1..n into 1..m.
Embeddings(n, m) ==
    {f \in [1..n -> 1..m] : \A i, j \in 1..n : i < j => f[i] < f[j]}

\* C1: at most two fetch_html calls are made in a run; a second call is made
\* exactly when the first was unforced and its parse was empty, it is forced,
\* and the list parsed from the last page fetched is the one the run goes on with.
C1_RetryOnce ==
    /\ Len(fetch_calls) <= 2
    /\ Len(parsed) <= Len(fetch_calls)
    /\ Len(fetch_calls) >= 1 => fetch_calls[1].forced = use_playwright
    /\ Len(fetch_calls) = 2 =>
          /\ ~fetch_calls[1].forced
          /\ fetch_calls[2].forced
          /\ fetch_calls[2].strategy = "playwright"
          /\ Len(parsed) >= 1 /\ parsed[1] = <<>>
    /\ (Len(parsed) >= 1 /\ parsed[1] = <<>> /\ ~fetch_calls[1].forced /\ pc # "fetch_html")
          => Len(fetch_calls) = 2
    /\ pc \in AfterParsePositions =>
          /\ Len(parsed) = Len(fetch_calls)
          /\ posts = Last(parsed)
    /\ pc \in (AfterParsePositions \ {"build"}) => body = build_email_body(Last(parsed))

C1_Witness ==
    /\ pc = "exited"
    /\ exit_status = 0
    /\ Len(fetch_calls) = 2
    /\ parsed = << <<>>, <<>> >>
    /\ body = NoPostsText

ArgvRejected == \E i \in 1..Len(argv) : argv[i] \notin {Tok_use_playwright, Tok_use, Tok_h}

\* C2, as stated: a failure at any stage, argument parsing included, ends the
\* process with status 1 after the error was logged, a run whose stages all
\* succeed ends with 0, and no other status occurs.
C2_ExitStatusOriginal ==
    pc = "exited" =>
        /\ exit_status \in {0, 1}
        /\ (ArgvRejected \/ exc # "None") => (exit_status = 1 /\ Last(log_lines) = "error")
        /\ (~ArgvRejected /\ exc = "None") => exit_status = 0

\* C2, amended: an exception raised at any stage after argument parsing ends
\* the process with status 1 after the error was logged; a command line that
\* argparse rejects ends it with status 2 and no "Error:" line; every other run
\* ends with status 0; no run ends with another status.
C2_ExitStatus ==
    /\ pc # "exited" <=> exit_status = -1
    /\ pc = "exited" =>
        /\ exit_status \in {0, 1, 2}
        /\ exit_status = 2 <=> ArgvRejected
        /\ exit_status = 2 => (log_lines = <<>> /\ fetch_calls = <<>>)
        /\ exit_status = 1 <=> exc # "None"
        /\ exit_status = 1 =>
              /\ Last(log_lines) = "error"
              /\ raised_at \in FetchPositions \cup ParsePositions \cup SmtpPositions
                               \cup {"send_email"}
        /\ (exit_status = 0 /\ fetch_calls # <<>>) =>
              (Last(log_lines) = "done" /\ send_calls = 1)

C2_Witness ==
    /\ pc = "exited"
    /\ exit_status = 1
    /\ raised_at = "smtp_login"
    /\ Last(log_lines) = "error"

MissingSetting ==
    \E k \in {"SMTP_USER", "SMTP_PASS", "MAIL_TO"} : env[k] \in {None, Some(<<>>)}

\* C3: when SMTP_USER, SMTP_PASS or MAIL_TO is missing or empty, send_email
\* raises on its configuration before any SMTP connection is opened or used.
C3_ConfigBeforeNetwork ==
    MissingSetting =>
        /\ smtp_log = <<>>
        /\ ~smtp_open
        /\ pc \notin SmtpPositions \cup {"log_done"}
        /\ send_calls > 0 =>
              /\ raised_at = "send_email"
              /\ exc \in {"RuntimeError", "ValueError"}
              /\ exc = "ValueError" => env.SMTP_PORT = Some(Txt_abc)
              /\ pc = "exited" => exit_status = 1

C3_Witness ==
    /\ env.SMTP_USER = Some(Txt_user)
    /\ env.SMTP_PASS = Some(Txt_user)
    /\ env.MAIL_TO = Some(<<>>)
    /\ send_calls = 1
    /\ exc = "RuntimeError"
    /\ smtp_log = <<>>
    /\ pc = "exited"

\* C4: every post parse_posts returns carries a time label that is exactly
\* 1-2 digits, ':', 2 digits, and the posts come, in document order, from
\* distinct rows that have at least 3 cells, one of them with that label as its
\* text; so a row without such a cell contributes no post.
C4_OnlyClockRows ==
    pc = "parsed" =>
        /\ \A i \in 1..Len(posts) : IsClock(posts[i].date) /\ posts[i].title # <<>>
        /\ \E f \in Embeddings(Len(posts), Len(html)) :
              \A i \in 1..Len(posts) :
                 /\ Len(html[f[i]]) >= 3
                 /\ \E k \in 1..Len(html[f[i]]) :
                       Strip(html[f[i]][k].own)
                         \o (IF html[f[i]][k].a = None THEN <<>>
                             ELSE Strip(html[f[i]][k].a[1].text)) = posts[i].date

C4_Witness ==
    /\ pc = "parsed"
    /\ Len(html) = 2
    /\ html[1] = <<TextCell(Txt_date), TextCell(Txt_OldPost), CountCell>>
    /\ html[2][1] = TextCell(Txt_905_ws)
    /\ Len(posts) = 1
    /\ posts[1].date = Txt_905

AbsolutePrefixes == {<<"h", "t", "t", "p", ":", "/", "/">>,
                     <<"h", "t", "t", "p", "s", ":", "/", "/">>}

RefKind(href) ==
    IF \E pre \in AbsolutePrefixes : StartsWith(href, pre) THEN "absolute"
    ELSE IF StartsWith(href, <<"/">>) THEN "site"
    ELSE "other"

\* The link the claim gives a post taken from `cells`.
ClaimedLink(cells) ==
    IF TitledCells(cells) = {} THEN None
    ELSE LET first == CHOOSE i \in TitledCells(cells) : \A j \in TitledCells(cells) : i <= j
             ref   == cells[first].a[1].href
             href  == IF ref = None THEN <<>> ELSE ref[1]
         IN  CASE RefKind(href) = "absolute" -> Some(href)
               [] RefKind(href) = "site" -> Some(Origin \o href)
               [] OTHER -> None

\* C5: the link of every post is the absolute http(s) reference of its title
\* anchor unchanged, or its site-relative reference appended to
\* https://coos.kr, and every other reference gives no link.
C5_LinkResolution ==
    pc = "parsed" =>
        \E f \in Embeddings(Len(posts), Len(html)) :
            \A i \in 1..Len(posts) :
               /\ RowPost(html[f[i]]) # None
               /\ posts[i].link = ClaimedLink(html[f[i]])

RECURSIVE SplitLines(_)
SplitLines(t) ==
    LET breaks == {i \in 1..Len(t) : t[i] = "\n"}
        k      == CHOOSE i \in breaks : \A j \in breaks : i <= j
    IN  IF breaks = {} THEN <<t>>
        ELSE <<SubSeq(t, 1, k - 1)>> \o SplitLines(SubSeq(t, k + 1, Len(t)))

EnvTrue(name) == env[name] \in {Some(Txt_true), Some(Txt_TRUE)}

FetchTag(strategy) ==
    CASE strategy = "playwright" -> "fetch_playwright"
      [] strategy = "selenium" -> "fetch_selenium"
      [] OTHER -> "fetch_requests"

IsFetchTag(tag) == tag \in {"fetch_playwright", "fetch_selenium", "fetch_requests"}

\* C7: the strategy of a fetch is Playwright when the fetch is forced (by
\* --use-playwright for the first fetch, by main for the second), else the
\* engine the environment selects, else plain requests; and one strategy, the
\* chosen one, runs per call.
C7_Precedence ==
    /\ \A i \in 1..Len(fetch_calls) :
          LET cli == \E k \in 1..Len(argv) : argv[k] \in {Tok_use_playwright, Tok_use}
              st  == fetch_calls[i].strategy
          IN  IF i = 2 \/ cli THEN st = "playwright"
              ELSE IF EnvTrue("USE_PLAYWRIGHT") \/ EnvTrue("USE_SELENIUM")
              THEN /\ st \in {"playwright", "selenium"}
                   /\ st = "playwright" => EnvTrue("USE_PLAYWRIGHT")
                   /\ st = "selenium" => EnvTrue("USE_SELENIUM")
              ELSE st = "requests"
    /\ LET tags == SelectSeq(log_lines, IsFetchTag)
       IN  /\ Len(tags) <= Len(fetch_calls)
           /\ \A i \in 1..Len(tags) : tags[i] = FetchTag(fetch_calls[i].strategy)
    /\ pc \in FetchPositions \ {"fetch_html"} =>
          pc \in (CASE Last(fetch_calls).strategy = "playwright" ->
                         {"pw_import", "pw_start", "pw_launch", "pw_goto", "pw_content",
                          "pw_exit"}
                    [] Last(fetch_calls).strategy = "selenium" ->
                         {"sel_check", "sel_install", "sel_launch", "sel_get", "sel_source"}
                    [] OTHER -> {"requests_get"})

C7_Witness ==
    /\ argv = <<Tok_use_playwright>>
    /\ env.USE_SELENIUM = Some(Txt_true)
    /\ Len(fetch_calls) = 1
    /\ fetch_calls[1].strategy = "playwright"
    /\ pc = "exited"
    /\ exit_status = 0

\* C8: no fetch_html call returns or raises with a browser instance it launched
\* still open.
C8_BrowserReleased == pc \notin FetchPositions => browsers_open = 0

SmtpSteps == <<"connect", "ehlo", "starttls", "login", "send_message">>

MessagesSent == Len(SelectSeq(smtp_log, LAMBDA c : c = "send_message"))

\* The session steps happen in the order connect, EHLO, STARTTLS, login, send,
\* each at most once, with QUIT only as the last one.
C9_Order ==
    \E k \in 0..Len(SmtpSteps) :
        \/ smtp_log = SubSeq(SmtpSteps, 1, k)
        \/ smtp_log = SubSeq(SmtpSteps, 1, k) \o <<"quit">>

C9_OneOnSuccess ==
    (pc = "log_done" \/ (pc = "exited" /\ exit_status = 0 /\ send_calls = 1))
        => MessagesSent = 1

C9_Closed == pc \notin SmtpPositions => ~smtp_open

\* C9, as stated: the steps are ordered, one message is sent when send_email
\* succeeds and none when it fails, and the session is closed on every exit.
C9_SessionOriginal ==
    /\ C9_Order
    /\ C9_OneOnSuccess
    /\ (send_calls = 1 /\ exc # "None" /\ pc \in {"handler", "exited"}) => MessagesSent = 0
    /\ C9_Closed

\* C9, amended: the steps are ordered, one message is sent when send_email
\* succeeds, none when a step up to and including the send fails, and the
\* session is closed on every exit; when only the closing QUIT fails,
\* send_email fails although the message was sent.
C9_Session ==
    /\ C9_Order
    /\ C9_OneOnSuccess
    /\ (send_calls = 1 /\ exc # "None" /\ raised_at # "smtp_exit") => MessagesSent = 0
    /\ MessagesSent <= 1
    /\ C9_Closed

C9_Witness ==
    /\ pc = "exited"
    /\ exit_status = 0
    /\ smtp_log = SmtpSteps \o <<"quit">>
    /\ ~smtp_open

\* C10: send_email is invoked at most once, and only when every fetch_html
\* call of the run returned and was parsed; an exception raised while fetching
\* or parsing, the forced second fetch included, ends the run with status 1
\* and nothing sent.
C10_SendAfterFetch ==
    /\ send_calls <= 1
    /\ send_calls = 1 =>
          /\ Len(parsed) = Len(fetch_calls)
          /\ posts = Last(parsed)
          /\ raised_at \notin FetchPositions \cup ParsePositions
    /\ raised_at \in FetchPositions \cup ParsePositions =>
          /\ send_calls = 0
          /\ smtp_log = <<>>
          /\ pc \in {"pw_exit", "handler", "exited"}
          /\ pc = "exited" => exit_status = 1

C10_Witness ==
    /\ pc = "exited"
    /\ exit_status = 1
    /\ Len(fetch_calls) = 2
    /\ ~fetch_calls[1].forced
    /\ parsed = << <<>> >>
    /\ raised_at = "pw_import"
    /\ send_calls = 0
    /\ smtp_log = <<>>

====
